---------------------------- MODULE Spec2Model ----------------------------
(***************************************************************************)
(* Page tree, cascading path update, site copy and menu construction of    *)
(* tracontent (src/content/models.py).                                     *)
(*                                                                         *)
(* Strings are sequences of one-character strings, so that joining,        *)
(* splitting, prefix tests and the character classes of the validators are *)
(* computed the way the code computes them.  The page table is a sequence  *)
(* of rows; a page's primary key is its index.  Every write is committed   *)
(* on its own (sqlite, no ATOMIC_REQUESTS in src/tracontent/settings.py),  *)
(* so an exception in the middle of a cascade leaves the earlier writes.   *)
(***************************************************************************)
EXTENDS Integers, Sequences, FiniteSets, TLC

VARIABLES pages, last, menu, edits, redirects, response, procs

vars == <<pages, last, menu, edits, redirects, response, procs>>

---------------------------------------------------------------------------
(* Bounds of the model *)

\* rows the page table may hold
MaxPages == 3
\* frames of Page.save the interpreter allows before it raises RuntimeError
RecursionLimit == 4
\* longest path a write may store (sqlite does not enforce max_length)
MaxPathLen == 10
\* saves of an already stored page a run may make
MaxEdits == 1
\* largest child_levels a caller passes to get_menu_entry
MaxLevels == 2
\* rows the Redirect table may hold
MaxRedirects == 1

---------------------------------------------------------------------------
(* Strings *)

None == 0

EmptyStr == << >>

Sites == {1, 2}

\* [a-z0-9-]
SlugChars ==
    { "a", "b", "c", "d", "e", "f", "g", "h", "i", "j", "k", "l", "m", "n", "o", "p",
      "q", "r", "s", "t", "u", "v", "w", "x", "y", "z", "0", "1", "2", "3", "4", "5",
      "6", "7", "8", "9", "-" }

\* [a-z0-9-/]
PathChars == SlugChars \cup {"/"}

RECURSIVE Join(_, _)
\* sep.join(parts)
Join(parts, sep) ==
    IF parts = << >> THEN EmptyStr
    ELSE IF Len(parts) = 1 THEN parts[1]
    ELSE parts[1] \o sep \o Join(Tail(parts), sep)

RECURSIVE SplitFrom(_, _, _)
\* s.split(c), with cur the segment read so far
SplitFrom(s, c, cur) ==
    IF s = << >> THEN <<cur>>
    ELSE IF Head(s) = c THEN <<cur>> \o SplitFrom(Tail(s), c, EmptyStr)
    ELSE SplitFrom(Tail(s), c, Append(cur, Head(s)))

Split(s, c) == SplitFrom(s, c, EmptyStr)

\* s.startswith(prefix)
StartsWith(s, prefix) ==
    /\ Len(prefix) <= Len(s)
    /\ SubSeq(s, 1, Len(prefix)) = prefix

RECURSIVE Digits(_)
\* str(n) for n >= 0
Digits(n) ==
    LET d == <<"0", "1", "2", "3", "4", "5", "6", "7", "8", "9">>[(n % 10) + 1]
    IN  IF n < 10 THEN <<d>> ELSE Append(Digits(n \div 10), d)

\* re.search(r'[a-z0-9-]+', value): some character is in the class
validate_slug(value) == \E i \in 1..Len(value) : value[i] \in SlugChars

\* re.search(r'[a-z0-9-/]+', value)
validate_path(value) == \E i \in 1..Len(value) : value[i] \in PathChars

Lower(c) == IF c = "A" THEN "a" ELSE IF c = "B" THEN "b" ELSE c

RECURSIVE slugify(_)
\* lower-case, blanks to hyphens, other characters dropped, hyphen runs collapsed
slugify(ustr) ==
    IF ustr = << >> THEN EmptyStr
    ELSE LET c    == Lower(Head(ustr))
             m    == IF c = " " THEN "-" ELSE c
             rest == slugify(Tail(ustr))
         IN  IF m \notin SlugChars THEN rest
             ELSE IF m = "-" /\ rest # << >> /\ Head(rest) = "-" THEN rest
             ELSE <<m>> \o rest

---------------------------------------------------------------------------
(* The page table *)

\* the values Page.__init__ gives the fields a caller does not name
Defaults ==
    [ slug                   |-> EmptyStr,
      title                  |-> EmptyStr,
      override_menu_text     |-> EmptyStr,
      body                   |-> EmptyStr,
      order                  |-> 0,
      public_from            |-> None,
      visible_from           |-> None,
      override_page_template |-> EmptyStr,
      page_controller_code   |-> EmptyStr ]

\* what a caller fills in for a page: a plain slug, a blank slug with a title
\* to derive it from, a blank slug with a title of symbols only, a slug with
\* characters outside the grammar, and a slug with no character inside it
Filled ==
    [ Defaults EXCEPT !.order = 1, !.override_menu_text = <<"m">>, !.body = <<"x">>,
                      !.public_from = 1, !.visible_from = 1,
                      !.override_page_template = <<"t">>,
                      !.page_controller_code = <<"c">> ]

Forms ==
    { [Filled EXCEPT !.slug = <<"a">>, !.title = <<"A">>],
      [Filled EXCEPT !.title = <<"B">>],
      [Filled EXCEPT !.title = <<"!">>],
      [Filled EXCEPT !.slug = <<"a", "/", "B">>, !.title = <<"A">>],
      [Filled EXCEPT !.slug = <<"B">>, !.title = <<"A">>] }

Ids == 1..Len(pages)

\* Page(site=site, parent=parent, **attrs): path is left at its default
NewPage(site, parent, attrs) ==
    [ site                   |-> site,
      parent                 |-> parent,
      path                   |-> EmptyStr,
      slug                   |-> attrs.slug,
      title                  |-> attrs.title,
      override_menu_text     |-> attrs.override_menu_text,
      body                   |-> attrs.body,
      order                  |-> attrs.order,
      public_from            |-> attrs.public_from,
      visible_from           |-> attrs.visible_from,
      override_page_template |-> attrs.override_page_template,
      page_controller_code   |-> attrs.page_controller_code ]

\* a _make_path that forgets the parent
MakePathFromSlugOnly(store, self) == self.slug

\* Page._make_path, read against the rows of store
_make_path(store, self) ==
    IF self.parent = None
    THEN self.slug
    ELSE store[self.parent].path \o <<"/">> \o self.slug

\* unique_together: a NULL parent never equals another NULL parent
UniqueOk(store, id, row) ==
    \A other \in 1..Len(store) :
        other # id =>
            /\ ~ (store[other].site = row.site /\ store[other].path = row.path)
            /\ ~ ( /\ store[other].site = row.site
                   /\ row.parent # None
                   /\ store[other].parent = row.parent
                   /\ store[other].slug = row.slug )

\* INSERT or UPDATE of row id
Put(store, id, row) ==
    IF id <= Len(store) THEN [store EXCEPT ![id] = row] ELSE Append(store, row)

\* the slug and path assignments at the top of Page.save
Prepared(store, self) ==
    LET slug == IF self.title # EmptyStr /\ self.slug = EmptyStr
                THEN slugify(self.title) ELSE self.slug
        s1   == [self EXCEPT !.slug = slug]
    IN  IF slug # EmptyStr THEN [s1 EXCEPT !.path = _make_path(store, s1)] ELSE s1

RECURSIVE SortedInsert(_, _, _)
SortedInsert(store, seq, id) ==
    IF seq = << >> THEN <<id>>
    ELSE IF store[id].order < store[Head(seq)].order
    THEN <<id>> \o seq
    ELSE <<Head(seq)>> \o SortedInsert(store, Tail(seq), id)

RECURSIVE OrderedFrom(_, _, _)
OrderedFrom(store, S, n) ==
    IF n = 0 THEN << >>
    ELSE LET before == OrderedFrom(store, S, n - 1)
         IN  IF n \in S THEN SortedInsert(store, before, n) ELSE before

\* a queryset over the rows in S: Meta.ordering = ('order',), ties by primary key
Ordered(store, S) == OrderedFrom(store, S, Len(store))

\* a related manager that also hands out the children's children
ChildrenAndGrandchildren(store, id) ==
    { c \in 1..Len(store) :
        \/ store[c].parent = id
        \/ store[c].parent # None /\ store[store[c].parent].parent = id }

\* self.child_page_set
child_page_set(store, id) == { c \in 1..Len(store) : store[c].parent = id }

\* a save that writes the row and leaves the child pages alone
SaveWithoutCascade(store, id, self, depth) ==
    LET row == Prepared(store, self)
    IN  IF ~ UniqueOk(store, id, row)
        THEN [pages |-> store, outcome |-> "IntegrityError", written |-> << >>]
        ELSE [pages |-> Put(store, id, row), outcome |-> "ok", written |-> <<id>>]

RECURSIVE save(_, _, _, _)
RECURSIVE SaveChildren(_, _, _)

\* Page.save of the instance self with primary key id, depth frames deep:
\* the rows afterwards, how it ended, and the keys of the rows it wrote, in
\* the order of the writes
save(store, id, self, depth) ==
    IF depth > RecursionLimit
    THEN [pages |-> store, outcome |-> "RuntimeError", written |-> << >>]
    ELSE LET row == Prepared(store, self)
         IN  IF ~ UniqueOk(store, id, row)
             THEN [pages |-> store, outcome |-> "IntegrityError", written |-> << >>]
             ELSE LET stored == Put(store, id, row)
                      r      == SaveChildren(stored,
                                             Ordered(stored, child_page_set(stored, id)),
                                             depth)
                  IN  [r EXCEPT !.written = <<id>> \o @]

\* for child_page in self.child_page_set.all(): child_page.save()
SaveChildren(store, kids, depth) ==
    IF kids = << >>
    THEN [pages |-> store, outcome |-> "ok", written |-> << >>]
    ELSE LET r == save(store, Head(kids), store[Head(kids)], depth + 1)
         IN  IF r.outcome # "ok" THEN r
             ELSE LET rest == SaveChildren(r.pages, Tail(kids), depth)
                  IN  [rest EXCEPT !.written = r.written \o @]

PathsFit(store) == \A i \in 1..Len(store) : Len(store[i].path) <= MaxPathLen


---------------------------------------------------------------------------
(* Site copy *)

\* Page.get_parent_path (the caller has checked the assertion)
get_parent_path(self) ==
    LET parts == Split(self.path, "/")
    IN  Join(SubSeq(parts, 1, Len(parts) - 1), <<"/">>)

\* Page.objects.filter(site=site, path=path)
ByPath(store, site, path) ==
    { i \in 1..Len(store) : store[i].site = site /\ store[i].path = path }

\* Page.objects.filter(site=site, parent=parent, slug=slug).exists()
Exists(store, site, parent, slug) ==
    \E i \in 1..Len(store) :
        /\ store[i].site = site
        /\ store[i].parent = parent
        /\ store[i].slug = slug

CopySuffix == <<"-", "c", "o", "p", "y", "-">>

RECURSIVE ProbeCountingTwice(_, _, _, _, _)
\* a loop that raises the counter again before it formats the slug
ProbeCountingTwice(store, site, parent, original_slug, counter) ==
    LET slug == original_slug \o CopySuffix \o Digits(counter + 1)
    IN  IF ~ Exists(store, site, parent, slug)
        THEN slug
        ELSE ProbeCountingTwice(store, site, parent, original_slug, counter + 1)

RECURSIVE Probe(_, _, _, _, _)
\* the while True loop of copy_to_site, entered with counter already raised
Probe(store, site, parent, original_slug, counter) ==
    LET slug == original_slug \o CopySuffix \o Digits(counter)
    IN  IF ~ Exists(store, site, parent, slug)
        THEN slug
        ELSE Probe(store, site, parent, original_slug, counter + 1)

\* an allow-list that also carries the publication time
FieldsWithPublicFrom ==
    {"slug", "title", "override_menu_text", "body", "order", "public_from"}

\* Page.copy_to_site.fields_to_set
fields_to_set == {"slug", "title", "override_menu_text", "body", "order"}

\* keyword arguments a caller passes to copy_to_site
NoOverrides == [k \in {} |-> None]

Overrides ==
    { NoOverrides,
      [slug |-> <<"b">>],
      [body |-> <<"y">>, public_from |-> 2] }

\* page_copy_attrs: the allow-listed fields of self, then extra_keys over them
page_copy_attrs(self, extra_keys) ==
    [ k \in DOMAIN Defaults |->
        IF k \in DOMAIN extra_keys THEN extra_keys[k]
        ELSE IF k \in fields_to_set THEN self[k]
        ELSE Defaults[k] ]

\* Page.copy_to_site: the rows afterwards, the new row's key and how it ended
copy_to_site(store, self, site, extra_keys) ==
    IF self.path = EmptyStr
    THEN [pages |-> store, id |-> 0, outcome |-> "AssertionError"]
    ELSE LET parent_path == get_parent_path(self)
         IN  IF parent_path # EmptyStr /\ ByPath(store, site, parent_path) = {}
             THEN [pages |-> store, id |-> 0, outcome |-> "DoesNotExist"]
             ELSE LET parent == IF parent_path # EmptyStr
                                THEN CHOOSE i \in ByPath(store, site, parent_path) : TRUE
                                ELSE None
                      attrs  == page_copy_attrs(self, extra_keys)
                      slug   == IF Exists(store, site, parent, attrs.slug)
                                THEN Probe(store, site, parent, attrs.slug, 1)
                                ELSE attrs.slug
                      id     == Len(store) + 1
                      r      == save(store, id,
                                     NewPage(site, parent, [attrs EXCEPT !.slug = slug]), 1)
                  IN  [pages |-> r.pages, id |-> id, outcome |-> r.outcome]

---------------------------------------------------------------------------
(* Menus *)

FrontPage == <<"f", "r", "o", "n", "t", "-", "p", "a", "g", "e">>

\* Page.is_front_page
is_front_page(self) == self.parent = None /\ self.slug = FrontPage

\* Page.get_local_url
get_local_url(self) == IF is_front_page(self) THEN <<"/">> ELSE <<"/">> \o self.path

\* Page.menu_text
menu_text(self) ==
    IF self.override_menu_text # EmptyStr THEN self.override_menu_text ELSE self.title

\* visible_from__lte=t: a NULL visible_from never matches
VisibleAt(store, S, t) ==
    { i \in S : store[i].visible_from # None /\ store[i].visible_from <= t }

\* current_url is optional: NoUrl is None, Url(s) is the string s
NoUrl == << >>

Url(s) == <<s>>

Given(current_url) == current_url[1]

\* an active flag that compares for equality whether or not there are children
ActiveOnlyWhenEqual(current_url, href, children) ==
    current_url # NoUrl /\ Given(current_url) # EmptyStr /\ Given(current_url) = href

\* the active flag of get_menu_entry
Active(current_url, href, children) ==
    IF current_url # NoUrl /\ Given(current_url) # EmptyStr
    THEN IF children # << >>
         THEN StartsWith(Given(current_url), href)
         ELSE Given(current_url) = href
    ELSE FALSE

\* a guard that still builds children when no level is left
BuildsChildrenAtZero(child_levels) == child_levels >= 0

\* the guard of get_menu_entry: child_levels > 0
BuildsChildren(child_levels) == child_levels > 0

RECURSIVE get_menu_entry(_, _, _, _, _)
RECURSIVE EntriesOf(_, _, _, _, _)

\* Page.get_menu_entry of the page with key id
get_menu_entry(store, id, child_levels, t, current_url) ==
    LET children == IF BuildsChildren(child_levels)
                    THEN EntriesOf(store,
                                   Ordered(store, VisibleAt(store, child_page_set(store, id), t)),
                                   child_levels - 1, t, current_url)
                    ELSE << >>
        href     == get_local_url(store[id])
    IN  [ active   |-> Active(current_url, href, children),
          href     |-> href,
          text     |-> menu_text(store[id]),
          children |-> children ]

\* [page.get_menu_entry(child_levels, t, current_url) for page in ids]
EntriesOf(store, ids, child_levels, t, current_url) ==
    IF ids = << >> THEN << >>
    ELSE <<get_menu_entry(store, Head(ids), child_levels, t, current_url)>>
         \o EntriesOf(store, Tail(ids), child_levels, t, current_url)

\* the child_levels get_menu_entry takes when the caller names none
DefaultChildLevels == 1

\* SiteSettings.get_menu
get_menu(store, site, t, current_url, parent) ==
    EntriesOf(store,
              Ordered(store, VisibleAt(store,
                                       { i \in 1..Len(store) :
                                           store[i].site = site /\ store[i].parent = parent },
                                       t)),
              DefaultChildLevels, t, current_url)

---------------------------------------------------------------------------
(* Operations *)

\* no menu has been built for the request being served
NoMenu == << >>

\* visible_from values a caller supplies: unset, early, late
VisibleFroms == {None, 1, 2}

\* the time a menu is built for
Times == {1}

\* current_url of a request: missing, a top-level page, a page below it
Urls == { NoUrl, Url(<<"/", "a">>), Url(<<"/", "a", "/", "b">>) }

\* what a caller fills in for the pages of a menu: a slug with a menu text, a
\* blank slug with a title to derive it from, the front page
MenuForms ==
    { [Defaults EXCEPT !.slug = <<"a">>, !.title = <<"A">>, !.order = 1,
                       !.override_menu_text = <<"m">>],
      [Defaults EXCEPT !.title = <<"B">>],
      [Defaults EXCEPT !.slug = FrontPage, !.title = <<"A">>] }

\* the field checks a form runs before it saves (PageAdminForm): title is
\* required, and the slug validator is skipped for a blank slug
full_clean(slug, title) ==
    /\ title # EmptyStr
    /\ slug # EmptyStr => validate_slug(slug)

\* no request has been answered yet
NoResponse ==
    [ site |-> None, path |-> EmptyStr, is_staff |-> FALSE, status |-> "none",
      target |-> EmptyStr, page |-> None, looked_up |-> FALSE ]

\* the workers that serve requests side by side
Procs == {1, 2}

\* a worker between requests
Idle == [pc |-> "idle"]

Init ==
    /\ pages = << >>
    /\ last = [op |-> "init", outcome |-> "ok"]
    /\ menu = NoMenu
    /\ edits = 0
    /\ redirects = {}
    /\ response = NoResponse
    /\ procs = [p \in Procs |-> Idle]

\* page = Page(site=site, parent=parent, **attrs); full_clean; page.save()
CreatePage(site, parent, attrs) ==
    /\ menu = NoMenu
    /\ Len(pages) < MaxPages
    /\ LET r == IF full_clean(attrs.slug, attrs.title)
                THEN save(pages, Len(pages) + 1, NewPage(site, parent, attrs), 1)
                ELSE [pages |-> pages, outcome |-> "ValidationError"]
       IN  /\ PathsFit(r.pages)
           /\ pages' = r.pages
           /\ last' = [op |-> "create", outcome |-> r.outcome]
    /\ menu' = NoMenu
    /\ UNCHANGED <<edits, redirects, response, procs>>

\* page = Page.objects.get(id=id); page.parent = parent; page.slug = slug;
\* full_clean; page.save()
SavePage(id, parent, slug, title) ==
    /\ menu = NoMenu
    /\ id \in Ids
    /\ edits < MaxEdits
    /\ edits' = edits + 1
    /\ LET self == [pages[id] EXCEPT !.parent = parent, !.slug = slug, !.title = title]
           r    == IF full_clean(slug, title)
                   THEN save(pages, id, self, 1)
                   ELSE [pages |-> pages, outcome |-> "ValidationError"]
       IN  /\ PathsFit(r.pages)
           /\ pages' = r.pages
           /\ last' = [op |-> "save", outcome |-> r.outcome]
    /\ menu' = NoMenu
    /\ UNCHANGED <<redirects, response, procs>>

\* Page.objects.get(id=src).copy_to_site(site, **extra_keys)
CopyToSite(src, site, extra_keys) ==
    /\ menu = NoMenu
    /\ src \in Ids
    /\ Len(pages) < MaxPages
    /\ LET r == copy_to_site(pages, pages[src], site, extra_keys)
       IN  /\ PathsFit(r.pages)
           /\ pages' = r.pages
           /\ last' = [op |-> "copy_to_site", outcome |-> r.outcome]
    /\ menu' = NoMenu
    /\ UNCHANGED <<edits, redirects, response, procs>>

\* SiteSettings(site).get_menu(t=t, current_url=current_url, parent=parent)
GetMenu(site, t, current_url, parent) ==
    /\ menu = NoMenu
    /\ menu' = [ op |-> "get_menu", site |-> site, page |-> parent, t |-> t,
                 current_url |-> current_url, child_levels |-> DefaultChildLevels,
                 entries |-> get_menu(pages, site, t, current_url, parent) ]
    /\ last' = [op |-> "get_menu", outcome |-> "ok"]
    /\ UNCHANGED <<pages, edits, redirects, response, procs>>

\* Page.objects.get(id=id).get_menu_entry(child_levels, t, current_url)
GetMenuEntry(id, child_levels, t, current_url) ==
    /\ id \in Ids
    /\ menu = NoMenu
    /\ menu' = [ op |-> "get_menu_entry", site |-> pages[id].site, page |-> id, t |-> t,
                 current_url |-> current_url, child_levels |-> child_levels,
                 entries |-> <<get_menu_entry(pages, id, child_levels, t, current_url)>> ]
    /\ last' = [op |-> "get_menu_entry", outcome |-> "ok"]
    /\ UNCHANGED <<pages, edits, redirects, response, procs>>

Next ==
    \/ \E site \in Sites, parent \in Ids \cup {None}, attrs \in Forms :
            CreatePage(site, parent, attrs)
    \/ \E id \in Ids, parent \in Ids \cup {None}, attrs \in Forms :
            SavePage(id, parent, attrs.slug, attrs.title)
    \/ \E src \in Ids, site \in Sites, extra_keys \in Overrides :
            CopyToSite(src, site, extra_keys)

Spec == Init /\ [][Next]_vars

\* the response that carries the menu is sent; the next request starts afresh
SendResponse ==
    /\ menu # NoMenu
    /\ menu' = NoMenu
    /\ last' = [op |-> "response", outcome |-> "ok"]
    /\ UNCHANGED <<pages, edits, redirects, response, procs>>

NextMenu ==
    \/ \E site \in Sites, parent \in Ids \cup {None}, attrs \in MenuForms,
          visible_from \in VisibleFroms :
            CreatePage(site, parent, [attrs EXCEPT !.visible_from = visible_from])
    \/ \E site \in Sites, t \in Times, current_url \in Urls, parent \in Ids \cup {None} :
            GetMenu(site, t, current_url, parent)
    \/ \E id \in Ids, child_levels \in 0..MaxLevels, t \in Times, current_url \in Urls :
            GetMenuEntry(id, child_levels, t, current_url)
    \/ SendResponse

SpecMenu == Init /\ [][NextMenu]_vars

\* menus over page tables in which a save has moved a page under another
\* page, its own descendants and itself included
NextLoop ==
    \/ \E site \in Sites, parent \in Ids \cup {None}, attrs \in MenuForms, t \in Times :
            CreatePage(site, parent, [attrs EXCEPT !.visible_from = t])
    \/ \E id \in Ids, parent \in Ids :
            SavePage(id, parent, pages[id].slug, pages[id].title)
    \/ \E site \in Sites, t \in Times, parent \in Ids \cup {None} :
            GetMenu(site, t, NoUrl, parent)
    \/ \E id \in Ids, child_levels \in 0..MaxLevels, t \in Times :
            GetMenuEntry(id, child_levels, t, NoUrl)
    \/ SendResponse

SpecLoop == Init /\ [][NextLoop]_vars

---------------------------------------------------------------------------
(* Saves by two workers, interleaved between row writes *)

\* what a caller fills in for the pages two workers will save
RaceForms ==
    { [Filled EXCEPT !.slug = <<"a">>, !.title = <<"A">>],
      [Filled EXCEPT !.title = <<"!">>] }

\* the slug and title a worker's form carries
RenameForms ==
    { [slug |-> <<"b">>, title |-> <<"B">>],
      [slug |-> <<"c">>, title |-> <<"C">>] }

\* no worker is inside a save
Quiet == \A p \in Procs : procs[p].pc # "saving"

\* a worker whose save has ended
Done(outcome) == [pc |-> "done", outcome |-> outcome]

\* a call of save that a worker has yet to make: the instance in memory and,
\* for a child page of the cascade, the path of the parent instance it was
\* fetched through (cached); the instance a request loaded reads its parent
\* from the table
Frame(id, self, cached, parent_path) ==
    [id |-> id, self |-> self, cached |-> cached, parent_path |-> parent_path]

\* page = Page.objects.get(id=id); page.slug = slug; page.title = title;
\* full_clean: the worker is about to call page.save()
BeginSave(p, id, slug, title) ==
    /\ procs[p].pc = "idle"
    /\ id \in Ids
    /\ IF full_clean(slug, title)
       THEN /\ procs' = [procs EXCEPT ![p] =
                            [ pc    |-> "saving",
                              stack |-> << Frame(id, [pages[id] EXCEPT !.slug = slug,
                                                                       !.title = title],
                                                 FALSE, EmptyStr) >> ]]
            /\ last' = [op |-> "begin_save", outcome |-> "ok"]
       ELSE /\ procs' = [procs EXCEPT ![p] = Done("ValidationError")]
            /\ last' = [op |-> "begin_save", outcome |-> "ValidationError"]
    /\ UNCHANGED <<pages, menu, edits, redirects, response>>

\* one call of save by worker p up to its loop: the slug and path
\* assignments, the write of the row, and the query for the child pages,
\* whose saves come before whatever the worker had left to do
WriteRow(p) ==
    /\ procs[p].pc = "saving"
    /\ LET f    == Head(procs[p].stack)
           seen == IF f.cached
                   THEN [pages EXCEPT ![f.self.parent].path = f.parent_path]
                   ELSE pages
           row  == Prepared(seen, f.self)
       IN  IF ~ UniqueOk(pages, f.id, row)
           THEN /\ pages' = pages
                /\ procs' = [procs EXCEPT ![p] = Done("IntegrityError")]
                /\ last' = [op |-> "write_row", outcome |-> "IntegrityError"]
           ELSE LET stored == Put(pages, f.id, row)
                    kids   == Ordered(stored, child_page_set(stored, f.id))
                    frames == [ k \in 1..Len(kids) |->
                                  Frame(kids[k], stored[kids[k]], TRUE, row.path) ]
                    stack  == frames \o Tail(procs[p].stack)
                IN  /\ PathsFit(stored)
                    /\ pages' = stored
                    /\ procs' = [procs EXCEPT ![p] =
                                    IF stack = << >> THEN Done("ok")
                                    ELSE [pc |-> "saving", stack |-> stack]]
                    /\ last' = [op |-> "write_row", outcome |-> "ok"]
    /\ UNCHANGED <<menu, edits, redirects, response>>

\* page = Page.objects.get(id=id); page.save(), while no worker is inside a
\* save
HealPage(id) ==
    /\ Quiet
    /\ id \in Ids
    /\ SavePage(id, pages[id].parent, pages[id].slug, pages[id].title)

NextRace ==
    \/ \E site \in Sites, parent \in Ids \cup {None}, attrs \in RaceForms :
            (\A p \in Procs : procs[p].pc = "idle") /\ CreatePage(site, parent, attrs)
    \/ \E p \in Procs, id \in Ids, form \in RenameForms :
            BeginSave(p, id, form.slug, form.title)
    \/ \E p \in Procs : WriteRow(p)
    \/ \E id \in Ids : HealPage(id)

SpecRace == Init /\ [][NextRace]_vars

---------------------------------------------------------------------------
(* Page resolution (src/content/views.py) *)

\* the attributes of a Site instance: the fields of django.contrib.sites'
\* Site and the reverse accessor of SiteSettings.site, which is named by
\* related_name='site_settings'
SiteAttributes == {"id", "domain", "name", "site_settings"}

\* Redirect.objects.filter(site=site, path=path)
RedirectsAt(reds, site, path) == { r \in reds : r.site = site /\ r.path = path }

\* the rows that match criteria: path=path and, for a visitor who is not
\* staff, public_from__lte=now()
Criteria(store, path, is_staff, t) ==
    { i \in 1..Len(store) :
        /\ store[i].path = path
        /\ is_staff \/ (store[i].public_from # None /\ store[i].public_from <= t) }

\* content_page_view(request, path) for a request on site at time t
content_page_view(store, reds, site, path, is_staff, t) ==
    LET request == [NoResponse EXCEPT !.site = site, !.path = path, !.is_staff = is_staff]
    IN  IF "sitesettings" \notin SiteAttributes
        THEN [request EXCEPT !.status = "AttributeError"]
        ELSE IF RedirectsAt(reds, site, path) # {}
        THEN [request EXCEPT !.status = "redirect",
                             !.target = (CHOOSE r \in RedirectsAt(reds, site, path) : TRUE).target]
        ELSE LET found == Criteria(store, path, is_staff, t)
             IN  IF found = {}
                 THEN [request EXCEPT !.status = "Http404", !.looked_up = TRUE]
                 ELSE IF Cardinality(found) > 1
                 THEN [request EXCEPT !.status = "MultipleObjectsReturned", !.looked_up = TRUE]
                 ELSE [request EXCEPT !.status = "rendered", !.looked_up = TRUE,
                                      !.page = CHOOSE i \in found : TRUE]

\* what a caller fills in for the pages a visitor asks for
ViewForms ==
    { [Defaults EXCEPT !.slug = <<"a">>, !.title = <<"A">>],
      [Defaults EXCEPT !.slug = <<"b">>, !.title = <<"B">>] }

\* public_from values a caller supplies: draft, published
PublicFroms == {None, 1}

\* the paths the URL configuration hands to the view
RequestPaths == { <<"a">>, <<"a", "/", "b">> }

\* the targets of redirects
Targets == { <<"/", "b">> }

\* Redirect(site=site, path=path, target=target).save()
CreateRedirect(site, path, target) ==
    /\ Cardinality(redirects) < MaxRedirects
    /\ IF RedirectsAt(redirects, site, path) # {}
       THEN /\ redirects' = redirects
            /\ last' = [op |-> "create_redirect", outcome |-> "IntegrityError"]
       ELSE /\ redirects' = redirects \cup {[site |-> site, path |-> path, target |-> target]}
            /\ last' = [op |-> "create_redirect", outcome |-> "ok"]
    /\ UNCHANGED <<pages, menu, edits, response, procs>>

\* a visitor of site asks for path
Request(site, path, is_staff, t) ==
    /\ response' = content_page_view(pages, redirects, site, path, is_staff, t)
    /\ last' = [op |-> "content_page_view", outcome |-> response'.status]
    /\ UNCHANGED <<pages, menu, edits, redirects, procs>>

NextView ==
    \/ \E site \in Sites, parent \in Ids \cup {None}, attrs \in ViewForms,
          public_from \in PublicFroms :
            CreatePage(site, parent, [attrs EXCEPT !.public_from = public_from])
    \/ \E site \in Sites, path \in RequestPaths, target \in Targets :
            CreateRedirect(site, path, target)
    \/ \E site \in Sites, path \in RequestPaths, is_staff \in BOOLEAN, t \in Times :
            Request(site, path, is_staff, t)

SpecView == Init /\ [][NextView]_vars

---------------------------------------------------------------------------
(* Relations over the page table used by the properties *)

RECURSIVE AncestorsWithin(_, _, _)
\* the pages reached from id by following parent at most n times
AncestorsWithin(store, id, n) ==
    IF n = 0 \/ store[id].parent = None THEN {}
    ELSE {store[id].parent} \cup AncestorsWithin(store, store[id].parent, n - 1)

Ancestors(store, id) == AncestorsWithin(store, id, Len(store))

Descendants(store, id) == { d \in 1..Len(store) : id \in Ancestors(store, d) }

PathDerived(store, i) ==
    store[i].path = IF store[i].parent = None
                    THEN store[i].slug
                    ELSE store[store[i].parent].path \o <<"/">> \o store[i].slug

PathInvariant(store) ==
    \A i \in 1..Len(store) : store[i].slug # EmptyStr => PathDerived(store, i)

SlugGrammar(slug) == \A i \in 1..Len(slug) : slug[i] \in SlugChars

PathGrammar(path) == \A i \in 1..Len(path) : path[i] \in PathChars

---------------------------------------------------------------------------
(* Properties *)

\* C1: an operation that completes keeps the path invariant: every stored
\* page with a non-empty slug has path = parent's path + '/' + slug, or
\* path = slug when it has no parent.  The table starts empty, so the
\* invariant holds after every sequence of completed operations.
C1_PathInvariantKept ==
    [][ (PathInvariant(pages) /\ last'.outcome = "ok") => PathInvariant(pages') ]_vars

\* a completed save that changed the slug of a page above a grandchild, all
\* three with non-empty slugs
C1_Witness ==
    /\ last = [op |-> "save", outcome |-> "ok"]
    /\ PathInvariant(pages)
    /\ \E i, j, k \in Ids :
        /\ pages[k].parent = j /\ pages[j].parent = i /\ pages[i].parent = None
        /\ pages[i].slug = <<"b">> /\ pages[i].title = <<"B">>
        /\ pages[j].slug # EmptyStr /\ pages[k].slug # EmptyStr
        /\ pages[k].path = <<"b", "/">> \o pages[j].slug \o <<"/">> \o pages[k].slug

\* C2: when a save that changed a page's slug or parent completes, the path
\* of every transitive descendant begins with the page's new path and '/'.
C2_CascadeReachesEveryDescendant ==
    [][ \A id \in Ids, parent \in Ids \cup {None}, attrs \in Forms :
          ( /\ SavePage(id, parent, attrs.slug, attrs.title)
            /\ last'.outcome = "ok"
            /\ \/ pages'[id].slug # pages[id].slug
               \/ pages'[id].parent # pages[id].parent )
          => \A d \in Descendants(pages', id) :
                StartsWith(pages'[d].path, pages'[id].path \o <<"/">>) ]_vars

\* C3: no two pages of a site share a path, and no two pages of a site share
\* a (parent, slug) pair, root pages included.
C3_UniquePerSite ==
    \A i, j \in Ids :
        (i # j /\ pages[i].site = pages[j].site) =>
            /\ pages[i].path # pages[j].path
            /\ ~ (pages[i].parent = pages[j].parent /\ pages[i].slug = pages[j].slug)

\* C10: no stored page has a slug with a character outside [a-z0-9-] or a
\* path with a character outside [a-z0-9-/].
C10_StoredPagesMatchGrammar ==
    \A i \in Ids : SlugGrammar(pages[i].slug) /\ PathGrammar(pages[i].path)

\* the row a completed copy_to_site added
Added == pages'[Len(pages) + 1]

\* the slug copy_to_site starts from: the override if one is given
WantedSlug(src, extra_keys) ==
    IF "slug" \in DOMAIN extra_keys THEN extra_keys.slug ELSE pages[src].slug

\* slug is taken under parent in site before the copy
Taken(site, parent, slug) ==
    \E i \in Ids :
        pages[i].site = site /\ pages[i].parent = parent /\ pages[i].slug = slug

CopyN(slug, n) == slug \o <<"-", "c", "o", "p", "y", "-">> \o Digits(n)

\* C4: a completed copy keeps the wanted slug when it is free under the new
\* page's parent in the target site; otherwise the new slug is
\* '<slug>-copy-N' for the smallest N >= 1 that is free there.
C4_CopySlugProbing ==
    [][ \A src \in Ids, site \in Sites, extra_keys \in Overrides :
          (CopyToSite(src, site, extra_keys) /\ last'.outcome = "ok") =>
            LET wanted == WantedSlug(src, extra_keys)
                parent == Added.parent
            IN  IF ~ Taken(site, parent, wanted)
                THEN Added.slug = wanted
                ELSE \E n \in 1..(Len(pages) + 1) :
                        /\ Added.slug = CopyN(wanted, n)
                        /\ ~ Taken(site, parent, CopyN(wanted, n))
                        /\ \A k \in 1..(n - 1) : Taken(site, parent, CopyN(wanted, k)) ]_vars

\* the same page copied twice into its own site: -copy-1, then -copy-2
C4_Witness ==
    /\ last = [op |-> "copy_to_site", outcome |-> "ok"]
    /\ Len(pages) = 3
    /\ pages[1].slug = <<"a">>
    /\ pages[2].slug = CopyN(<<"a">>, 1)
    /\ pages[3].slug = CopyN(<<"a">>, 2)
    /\ \A i \in Ids : pages[i].site = 1 /\ pages[i].parent = None

\* C5: copying a page that has a parent into a site with no page at the
\* parent's path fails with DoesNotExist and leaves the table as it was.
C5_MissingParentFails ==
    [][ \A src \in Ids, site \in Sites, extra_keys \in Overrides :
          ( /\ CopyToSite(src, site, extra_keys)
            /\ pages[src].parent # None
            /\ ByPath(pages, site, pages[pages[src].parent].path) = {} )
          => (last'.outcome = "DoesNotExist" /\ pages' = pages) ]_vars

\* C6: the row a completed copy adds has title, override_menu_text, body and
\* order of the source, a slug that is the source's or the source's with a
\* -copy-N suffix, and the defaults in every other field, except that a field
\* named in the overrides has the override's value.
C6_CopyFieldAllowList ==
    [][ \A src \in Ids, site \in Sites, extra_keys \in Overrides :
          (CopyToSite(src, site, extra_keys) /\ last'.outcome = "ok") =>
            /\ \A k \in {"title", "override_menu_text", "body", "order"} :
                  Added[k] = IF k \in DOMAIN extra_keys THEN extra_keys[k]
                             ELSE pages[src][k]
            /\ \/ Added.slug = WantedSlug(src, extra_keys)
               \/ \E n \in 1..(Len(pages) + 1) :
                     Added.slug = CopyN(WantedSlug(src, extra_keys), n)
            /\ \A k \in {"public_from", "visible_from", "override_page_template",
                         "page_controller_code"} :
                  Added[k] = IF k \in DOMAIN extra_keys THEN extra_keys[k]
                             ELSE Defaults[k] ]_vars

\* a copy that took the source's body and order but none of its publication
\* time, visibility time, template or controller
C6_Witness ==
    /\ last = [op |-> "copy_to_site", outcome |-> "ok"]
    /\ \E i, j \in Ids :
        /\ i < j /\ j = Len(pages)
        /\ pages[i].public_from = 1 /\ pages[i].page_controller_code = <<"c">>
        /\ pages[j].title = pages[i].title /\ pages[j].body = <<"x">>
        /\ pages[j].order = 1 /\ pages[j].override_menu_text = <<"m">>
        /\ pages[j].public_from = None /\ pages[j].visible_from = None
        /\ pages[j].override_page_template = EmptyStr
        /\ pages[j].page_controller_code = EmptyStr
        /\ pages[j].site = 2

RECURSIVE AllEntries(_)
\* the entries of a menu at every level
AllEntries(entries) ==
    IF entries = << >> THEN {}
    ELSE {Head(entries)} \cup AllEntries(Head(entries).children)
                         \cup AllEntries(Tail(entries))

RECURSIVE Nesting(_)
\* the number of levels nested below an entry
Nesting(entry) ==
    IF entry.children = << >> THEN 0
    ELSE 1 + CHOOSE m \in 0..MaxPages :
                /\ \E i \in 1..Len(entry.children) : Nesting(entry.children[i]) = m
                /\ \A i \in 1..Len(entry.children) : Nesting(entry.children[i]) <= m

IsVisible(i, t) == pages[i].visible_from # None /\ pages[i].visible_from <= t

\* C7: an entry built with k remaining child levels nests at most k levels
\* below it (none at all for k = 0); get_menu builds its entries with one
\* remaining level, so a menu is top-level entries plus one level of children.
C7_MenuDepthBound ==
    menu # NoMenu =>
        \A i \in 1..Len(menu.entries) : Nesting(menu.entries[i]) <= menu.child_levels

\* a menu over a visible page with a visible child and a visible grandchild:
\* the child is listed with no children of its own
C7_Witness ==
    /\ menu # NoMenu
    /\ menu.op = "get_menu" /\ menu.page = None
    /\ \E i, j, k \in Ids :
        /\ pages[i].parent = None /\ pages[j].parent = i /\ pages[k].parent = j
        /\ \A p \in {i, j, k} : pages[p].site = menu.site /\ IsVisible(p, menu.t)
        /\ \E n \in 1..Len(menu.entries) :
            /\ menu.entries[n].href = get_local_url(pages[i])
            /\ Len(menu.entries[n].children) = 1
            /\ menu.entries[n].children[1].href = get_local_url(pages[j])
            /\ menu.entries[n].children[1].children = << >>

\* C8: at every level, an entry is inactive when no current_url is given;
\* otherwise an entry with children is active iff current_url starts with
\* its href, and an entry without children iff current_url equals its href.
C8_ActiveFlagRule ==
    menu # NoMenu =>
        \A e \in AllEntries(menu.entries) :
            e.active = IF menu.current_url = NoUrl THEN FALSE
                       ELSE IF e.children # << >>
                            THEN StartsWith(Given(menu.current_url), e.href)
                            ELSE Given(menu.current_url) = e.href

\* the request is for /a/b: the entry /a has children and is active by its
\* prefix, its child /a/b is active by equality
C8_Witness ==
    /\ menu # NoMenu
    /\ menu.current_url = Url(<<"/", "a", "/", "b">>)
    /\ \E n \in 1..Len(menu.entries) :
        /\ menu.entries[n].href = <<"/", "a">>
        /\ menu.entries[n].active
        /\ Len(menu.entries[n].children) = 1
        /\ menu.entries[n].children[1].href = <<"/", "a", "/", "b">>
        /\ menu.entries[n].children[1].children = << >>
        /\ menu.entries[n].children[1].active

\* C9: every entry, at every level, of a menu built for a site at time t is
\* the entry of a page of that site whose visible_from is set and <= t.
C9_MenuShowsVisiblePagesOfSite ==
    (menu # NoMenu /\ menu.op = "get_menu") =>
        \A e \in AllEntries(menu.entries) :
            \E p \in Ids :
                /\ pages[p].site = menu.site
                /\ IsVisible(p, menu.t)
                /\ e.href = get_local_url(pages[p])
                /\ e.text = menu_text(pages[p])


\* C11: in every state reached through creating pages, saving pages (the
\* parent may change) and copy_to_site, no page is its own ancestor by the
\* parent relation.
C11_NoPageIsItsOwnAncestor ==
    \A i \in Ids : i \notin Ancestors(pages, i)


\* C12: a request for a path that has a Redirect on the request's site is
\* answered by a redirect to that Redirect's target, and no page is looked
\* up for it, whether or not a page with that path exists.
C12_RedirectPrecedence ==
    [][ \A site \in Sites, path \in RequestPaths, is_staff \in BOOLEAN, t \in Times :
            ( /\ Request(site, path, is_staff, t)
              /\ RedirectsAt(redirects, site, path) # {} )
            => /\ response'.status = "redirect"
               /\ \E r \in RedirectsAt(redirects, site, path) : response'.target = r.target
               /\ ~ response'.looked_up ]_vars

\* C14: a request on a site that no Redirect answers renders a page of that
\* site with the requested path if there is one the visitor may see, and
\* is answered not-found otherwise, whatever pages other sites hold at
\* that path.
C14_ResolutionStaysInSite ==
    [][ \A site \in Sites, path \in RequestPaths, is_staff \in BOOLEAN, t \in Times :
            ( /\ Request(site, path, is_staff, t)
              /\ RedirectsAt(redirects, site, path) = {} )
            => LET mine == { i \in Criteria(pages, path, is_staff, t) : pages[i].site = site }
               IN  IF mine = {}
                   THEN response'.status = "Http404"
                   ELSE response'.status = "rendered" /\ response'.page \in mine ]_vars


\* the instance SavePage hands to save
Edited(id, parent, slug, title) ==
    [pages[id] EXCEPT !.parent = parent, !.slug = slug, !.title = title]

\* the parent relation once the row of id carries the edited parent
Reparented(id, parent) == [pages EXCEPT ![id].parent = parent]

\* the ways a call of save can come to an end
Outcomes == {"ok", "IntegrityError", "RuntimeError"}

\* C15 as stated: a save of a page that is its own ancestor never comes to
\* an end, neither normally nor with an error.
C15_CycleSaveNeverReturns ==
    [][ \A id \in Ids, parent \in Ids, attrs \in Forms :
            ( /\ last'.op = "save"
              /\ id \in Ancestors(Reparented(id, parent), id)
              /\ full_clean(attrs.slug, attrs.title)
              /\ SavePage(id, parent, attrs.slug, attrs.title) )
            => last'.outcome \notin Outcomes ]_vars

\* C15 amended: a save of a page that is its own ancestor does not complete:
\* it ends with an error, RuntimeError once the cascade has re-entered save
\* as often as the interpreter allows, or IntegrityError when a write of the
\* cascade breaks a uniqueness constraint before that.
C15_CycleSaveEndsWithError ==
    [][ \A id \in Ids, parent \in Ids, attrs \in Forms :
            ( /\ last'.op = "save"
              /\ id \in Ancestors(Reparented(id, parent), id)
              /\ full_clean(attrs.slug, attrs.title)
              /\ SavePage(id, parent, attrs.slug, attrs.title) )
            => last'.outcome \in {"RuntimeError", "IntegrityError"} ]_vars

\* a save of a page on a parent cycle has ended with RuntimeError
C15_Witness ==
    /\ last.op = "save"
    /\ last.outcome = "RuntimeError"
    /\ \E i \in Ids : i \in Ancestors(pages, i)


\* the keys in a log of writes
WrittenSet(written) == { written[k] : k \in 1..Len(written) }

\* no key occurs twice in a log of writes
WrittenOnce(written) ==
    \A k, l \in 1..Len(written) : written[k] = written[l] => k = l

\* no page of store is its own ancestor
CycleFree(store) == \A i \in 1..Len(store) : i \notin Ancestors(store, i)

\* C16: on a page tree without cycles, a save of a page comes to an end
\* without exhausting the recursion, writes only the page and its
\* descendants, each at most once, leaves every other row as it was, and,
\* when it completes, has written the page and every descendant exactly
\* once.
C16_CascadeWritesSubtreeOnce ==
    [][ \A id \in Ids, parent \in Ids \cup {None}, attrs \in Forms :
            ( /\ last'.op = "save"
              /\ CycleFree(Reparented(id, parent))
              /\ full_clean(attrs.slug, attrs.title)
              /\ SavePage(id, parent, attrs.slug, attrs.title) )
            => LET r       == save(pages, id, Edited(id, parent, attrs.slug, attrs.title), 1)
                   subtree == {id} \cup Descendants(Reparented(id, parent), id)
               IN  /\ r.outcome \in {"ok", "IntegrityError"}
                   /\ WrittenOnce(r.written)
                   /\ WrittenSet(r.written) \subseteq subtree
                   /\ r.outcome = "ok" => WrittenSet(r.written) = subtree
                   /\ \A i \in Ids \ subtree : pages'[i] = pages[i] ]_vars

\* a save has completed on a tree in which a page has a child and a
\* grandchild, all with paths derived from the root's
C16_Witness ==
    /\ last.op = "save"
    /\ last.outcome = "ok"
    /\ CycleFree(pages)
    /\ \E i, j, k \in Ids :
            /\ pages[i].parent = None /\ pages[j].parent = i /\ pages[k].parent = j
            /\ pages[i].slug # EmptyStr /\ pages[j].slug # EmptyStr
            /\ pages[k].slug # EmptyStr
            /\ PathDerived(pages, j) /\ PathDerived(pages, k)

\* C18: a copy_to_site that completes adds exactly one page; the new page
\* is in the target site, at root level when the source has no parent and
\* otherwise under the page of the target site whose path is the path of
\* the source's parent; every page stored before is unchanged.
C18_CopyFrame ==
    [][ \A src \in Ids, site \in Sites, extra_keys \in Overrides :
            ( /\ last'.op = "copy_to_site"
              /\ last'.outcome = "ok"
              /\ CopyToSite(src, site, extra_keys) )
            => /\ Len(pages') = Len(pages) + 1
               /\ \A i \in Ids : pages'[i] = pages[i]
               /\ Added.site = site
               /\ IF pages[src].parent = None
                  THEN Added.parent = None
                  ELSE /\ Added.parent \in Ids
                       /\ pages[Added.parent].site = site
                       /\ pages[Added.parent].path = pages[pages[src].parent].path ]_vars


RECURSIVE Calls(_)
RECURSIVE CallsOfAll(_)
\* the calls of get_menu_entry that produced an entry: one for the entry
\* and those that produced its children
Calls(entry) == 1 + CallsOfAll(entry.children)

CallsOfAll(entries) ==
    IF entries = << >> THEN 0 ELSE Calls(Head(entries)) + CallsOfAll(Tail(entries))

RECURSIVE MostCalls(_, _)
\* 1 + n + ... + n^k: the calls a tree of k levels with n children per
\* page takes
MostCalls(n, k) == IF k = 0 THEN 1 ELSE 1 + n * MostCalls(n, k - 1)

\* C17: building a menu comes to an end on every page table, parent cycles
\* included: an entry built with k remaining child levels takes at most
\* 1 + n + ... + n^k calls of get_menu_entry over a table of n pages, and
\* nests at most k levels, because every recursive call is made with one
\* level less and none is made at zero.
C17_MenuBuildingIsBounded ==
    menu # NoMenu =>
        \A i \in 1..Len(menu.entries) :
            /\ Calls(menu.entries[i]) <= MostCalls(Len(pages), menu.child_levels)
            /\ Nesting(menu.entries[i]) <= menu.child_levels

\* an entry built for a page that is its own ancestor, with the recursion
\* gone round the cycle until the child levels ran out
C17_Witness ==
    /\ menu # NoMenu
    /\ menu.op = "get_menu_entry"
    /\ menu.child_levels = MaxLevels
    /\ menu.page \in Ancestors(pages, menu.page)
    /\ Nesting(menu.entries[1]) = MaxLevels


===========================================================================
